---------------------------- MODULE Spec2Model ----------------------------
(***************************************************************************)
(* Model of the SSE token extractor (src/lib/sse.ts, class SSEParser) and  *)
(* of the relay (src/app/api/generate/route.ts): the request handler POST  *)
(* with validatePrompt and fetchWithRetry, and the read loop of its        *)
(* response stream (ReadableStream.start).                                 *)
(*                                                                         *)
(* Strings are sequences of lexemes.  A lexeme is an atomic run of         *)
(* characters (a TLA+ string); Width gives the number of characters it     *)
(* stands for, so that String.length is the sum of the widths.  Chunk      *)
(* boundaries fall between lexemes.                                        *)
(***************************************************************************)
EXTENDS Integers, Sequences, FiniteSets, TLC

(***************************************************************************)
(* Lexemes                                                                 *)
(***************************************************************************)
NL == "\n"
SP == " "
Q == "\""
DATA == "data:"
DONE == "[DONE]"
BULK == "x*50000"
LONG == "p*9999"

\* the number of characters a lexeme stands for
Width(c) ==
  CASE c = DATA -> 5
    [] c = DONE -> 6
    [] c = BULK -> 50000
    [] c = LONG -> 9999
    [] c = "choices" -> 7
    [] c = "content" -> 7
    [] c = "del" -> 3
    [] c = "ta" -> 2
    [] c = "Hi" -> 2
    [] c = "Hello" -> 5
    [] c = "null" -> 4
    [] c = "true" -> 4
    [] OTHER -> 1

\* the lexemes that stand for more than one character
WideLexemes ==
  <<DATA, DONE, BULK, "choices", "content", "del", "ta", "Hi", "null", "true",
    "Hello", LONG>>

\* the characters of s beyond one per lexeme, for the first n wide lexemes
RECURSIVE ExtraWidth(_, _)
ExtraWidth(s, n) ==
  IF n = 0
  THEN 0
  ELSE (Width(WideLexemes[n]) - 1)
         * Cardinality({i \in 1..Len(s) : s[i] = WideLexemes[n]})
       + ExtraWidth(s, n - 1)

\* String.prototype.length: the sum of the widths of the lexemes
StrLen(s) == Len(s) + ExtraWidth(s, Len(WideLexemes))

\* the characters String.prototype.trim removes
IsWhitespace(c) == c \in {SP, NL, "\t", "\r"}

RECURSIVE TrimStart(_)
TrimStart(s) ==
  IF s # <<>> /\ IsWhitespace(Head(s)) THEN TrimStart(Tail(s)) ELSE s

RECURSIVE TrimEnd(_)
TrimEnd(s) ==
  IF s # <<>> /\ IsWhitespace(s[Len(s)])
  THEN TrimEnd(SubSeq(s, 1, Len(s) - 1))
  ELSE s

\* String.prototype.trim
Trim(s) == TrimEnd(TrimStart(s))

\* String.prototype.startsWith
StartsWith(s, p) == Len(s) >= Len(p) /\ SubSeq(s, 1, Len(p)) = p

\* String.prototype.slice(n): drops the first n characters; n is a number of
\* characters, and the prefix removed here is a whole number of lexemes
RECURSIVE Slice(_, _)
Slice(s, n) ==
  IF n <= 0 \/ s = <<>> THEN s ELSE Slice(Tail(s), n - Width(Head(s)))

\* String.prototype.split('\n'): k newlines give k + 1 segments, the k-th
\* between the (k-1)-th and the k-th newline
Split(s) ==
  LET nl == {i \in 1..Len(s) : s[i] = NL}
      n == Cardinality(nl)
      at == [k \in 0..(n + 1) |->
               IF k = 0 THEN 0
               ELSE IF k = n + 1 THEN Len(s) + 1
               ELSE CHOOSE j \in nl : Cardinality({m \in nl : m < j}) = k - 1]
  IN [k \in 1..(n + 1) |-> SubSeq(s, at[k - 1] + 1, at[k] - 1)]


(***************************************************************************)
(* JSON.parse, over lexemes.  A JavaScript value is a record tagged by t:  *)
(* "object" (m: the members in source order), "array" (a: the elements),   *)
(* "string" (s: the text), "number" (n), "boolean" (b), "null",            *)
(* "undefined".  A parse result is [ok, v, i]: success, the value, and the *)
(* index of the first lexeme after it.                                     *)
(***************************************************************************)
Undefined == [t |-> "undefined"]
ParseFail == [ok |-> FALSE, v |-> Undefined, i |-> 0]

\* JSON's insignificant whitespace
IsJsonWs(c) == c \in {SP, NL, "\t", "\r"}

RECURSIVE SkipWs(_, _)
SkipWs(s, i) == IF i <= Len(s) /\ IsJsonWs(s[i]) THEN SkipWs(s, i + 1) ELSE i

\* a string literal whose opening quote is s[i]; raw control characters are
\* not allowed inside it
ParseString(s, i) ==
  LET closing == {k \in (i + 1)..Len(s) : s[k] = Q}
  IN IF closing = {}
     THEN ParseFail
     ELSE LET j == CHOOSE k \in closing : \A l \in closing : k <= l
              text == SubSeq(s, i + 1, j - 1)
          IN IF \E k \in 1..Len(text) : text[k] \in {NL, "\t", "\r"}
             THEN ParseFail
             ELSE [ok |-> TRUE, v |-> [t |-> "string", s |-> text], i |-> j + 1]

RECURSIVE ParseValue(_, _)
RECURSIVE ParseMembers(_, _, _)
RECURSIVE ParseElements(_, _, _)

\* the members of an object after "{" or ","; i is at the next key
ParseMembers(s, i, acc) ==
  LET k == SkipWs(s, i)
  IN IF k > Len(s) \/ s[k] # Q
     THEN ParseFail
     ELSE LET key == ParseString(s, k)
              c == SkipWs(s, key.i)
          IN IF ~key.ok \/ c > Len(s) \/ s[c] # ":"
             THEN ParseFail
             ELSE LET val == ParseValue(s, c + 1)
                      e == SkipWs(s, val.i)
                      acc2 == Append(acc, [k |-> key.v.s, v |-> val.v])
                  IN IF ~val.ok \/ e > Len(s)
                     THEN ParseFail
                     ELSE IF s[e] = ","
                          THEN ParseMembers(s, e + 1, acc2)
                          ELSE IF s[e] = "}"
                               THEN [ok |-> TRUE,
                                     v |-> [t |-> "object", m |-> acc2],
                                     i |-> e + 1]
                               ELSE ParseFail

\* the elements of an array after "[" or ","; i is at the next element
ParseElements(s, i, acc) ==
  LET val == ParseValue(s, i)
      e == SkipWs(s, val.i)
      acc2 == Append(acc, val.v)
  IN IF ~val.ok \/ e > Len(s)
     THEN ParseFail
     ELSE IF s[e] = ","
          THEN ParseElements(s, e + 1, acc2)
          ELSE IF s[e] = "]"
               THEN [ok |-> TRUE, v |-> [t |-> "array", a |-> acc2], i |-> e + 1]
               ELSE ParseFail

\* one JSON value starting at or after s[i]
ParseValue(s, i) ==
  LET j == SkipWs(s, i)
  IN IF j > Len(s)
     THEN ParseFail
     ELSE CASE s[j] = "{" ->
                 LET k == SkipWs(s, j + 1)
                 IN IF k <= Len(s) /\ s[k] = "}"
                    THEN [ok |-> TRUE, v |-> [t |-> "object", m |-> <<>>], i |-> k + 1]
                    ELSE ParseMembers(s, j + 1, <<>>)
            [] s[j] = "[" ->
                 LET k == SkipWs(s, j + 1)
                 IN IF k <= Len(s) /\ s[k] = "]"
                    THEN [ok |-> TRUE, v |-> [t |-> "array", a |-> <<>>], i |-> k + 1]
                    ELSE ParseElements(s, j + 1, <<>>)
            [] s[j] = Q -> ParseString(s, j)
            [] s[j] = "null" -> [ok |-> TRUE, v |-> [t |-> "null"], i |-> j + 1]
            [] s[j] = "true" ->
                 [ok |-> TRUE, v |-> [t |-> "boolean", b |-> TRUE], i |-> j + 1]
            [] s[j] = "1" ->
                 [ok |-> TRUE, v |-> [t |-> "number", n |-> 1], i |-> j + 1]
            [] s[j] = "0" ->
                 [ok |-> TRUE, v |-> [t |-> "number", n |-> 0], i |-> j + 1]
            [] OTHER -> ParseFail

\* JSON.parse(data): ok = FALSE stands for the SyntaxError it throws
JsonParse(data) ==
  LET r == ParseValue(data, 1)
  IN IF r.ok /\ SkipWs(data, r.i) = Len(data) + 1 THEN r ELSE ParseFail

(***************************************************************************)
(* JavaScript operators on values                                          *)
(***************************************************************************)
\* ToBoolean
Truthy(v) ==
  CASE v.t = "undefined" -> FALSE
    [] v.t = "null" -> FALSE
    [] v.t = "boolean" -> v.b
    [] v.t = "number" -> v.n # 0
    [] v.t = "string" -> v.s # <<>>
    [] OTHER -> TRUE

\* typeof v === 'object'
TypeofObject(v) == v.t \in {"object", "array", "null"}

\* v[key] for a property name: the last member of that name wins; an array
\* or a primitive has no such property
GetProp(v, key) ==
  IF v.t # "object"
  THEN Undefined
  ELSE LET hits == {k \in 1..Len(v.m) : v.m[k].k = key}
       IN IF hits = {}
          THEN Undefined
          ELSE v.m[CHOOSE k \in hits : \A l \in hits : l <= k].v

\* v[0]
GetFirst(v) == IF v.t = "array" /\ Len(v.a) > 0 THEN v.a[1] ELSE Undefined

(***************************************************************************)
(* SSEParser (src/lib/sse.ts)                                              *)
(***************************************************************************)
maxErrors == 10
BufferCeiling == 100000

\* the 'data: ' prefix and its length in characters
DataPrefix == <<DATA, SP>>
DataPrefixLen == 6

\* lines 37-39: a blank line or a comment
IsSkippedLine(line) == Trim(line) = <<>> \/ StartsWith(line, <<":">>)

\* line 42
IsDataLine(line) == StartsWith(line, DataPrefix)

\* the payload is kept although it is the [DONE] marker
IsDoneMarkerNever(data) == FALSE

\* line 46
IsDoneMarker(data) == data = <<DONE>>

\* the ceiling is checked with > instead of >=
TooManyErrorsOffByOne(count) == count > maxErrors

\* the throw comes at the ceiling only, not above it
TooManyErrorsOnce(count) == count = maxErrors

\* line 81
TooManyErrors(count) == count >= maxErrors

\* only JSON.parse throws; the 'Invalid JSON structure' check is missing
DecodeThrowsOnSyntaxOnly(data) == ~JsonParse(data).ok

\* lines 51-56: whether the try block throws for this payload, either in
\* JSON.parse or at the explicit 'Invalid JSON structure' check
DecodeThrows(data) ==
  LET parsed == JsonParse(data)
  IN ~parsed.ok \/ ~Truthy(parsed.v) \/ ~TypeofObject(parsed.v)

\* lines 58-67: the tokens a parsed payload contributes
ExtractContent(parsed) ==
  LET choices == GetProp(parsed, <<"choices">>)
      choice == GetFirst(choices)
      delta == GetProp(choice, <<"del", "ta">>)
      content == GetProp(delta, <<"content">>)
  IN IF Truthy(choices) /\ choices.t = "array" /\ Truthy(choice)
        /\ Truthy(delta) /\ TypeofObject(delta)
        /\ Truthy(content) /\ content.t = "string"
     THEN <<content.s>>
     ELSE <<>>

\* a line that is passed over resets the error count
AfterSkippedResets(count) == 0

\* lines 38, 47: continue, for a blank line, a comment and the [DONE] marker;
\* a line without the 'data: ' prefix falls through in the same way
AfterSkipped(count) == count

\* a successful parse leaves the error count as it was
AfterSuccessKeeps(count) == count

\* line 70: a successful parse resets the error count
AfterSuccess(count) == 0

\* the throw hands over the tokens collected so far
RaiseWithTokens(tokens, count) ==
  [tokens |-> tokens, errorCount |-> count, raised |-> TRUE]

\* lines 81-84: the throw leaves parseChunk; its local tokens are lost
Raise(tokens, count) ==
  [tokens |-> <<>>, errorCount |-> count, raised |-> TRUE]

RECURSIVE ProcessLines(_, _, _, _)
\* lines 35-87: the loop over the complete lines, from line i on, with the
\* tokens and the error count so far; raised = the 'too many errors' throw
ProcessLines(lines, i, tokens, count) ==
  IF i > Len(lines)
  THEN [tokens |-> tokens, errorCount |-> count, raised |-> FALSE]
  ELSE LET line == lines[i]
           data == Slice(line, DataPrefixLen)
       IN IF IsSkippedLine(line) \/ ~IsDataLine(line) \/ IsDoneMarker(data)
          THEN ProcessLines(lines, i + 1, tokens, AfterSkipped(count))
          ELSE IF ~DecodeThrows(data)
               THEN ProcessLines(lines, i + 1,
                                 tokens \o ExtractContent(JsonParse(data).v),
                                 AfterSuccess(count))
               ELSE IF TooManyErrors(count + 1)
                    THEN Raise(tokens, count + 1)
                    ELSE ProcessLines(lines, i + 1, tokens, count + 1)

\* a value that is not a string, as an argument of parseChunk
NotAString == <<"<not a string>">>

\* no size circuit breaker
BufferTooLargeNever(buf) == FALSE

\* lines 21-22: the size circuit breaker's condition
BufferTooLarge(buf) == StrLen(buf) > BufferCeiling

\* lines 30-33: of the segments of the buffer, all but the last are complete
\* lines, and the last is kept in the buffer
AllButLast(segments) == SubSeq(segments, 1, Len(segments) - 1)
Last(segments) == segments[Len(segments)]
CompleteLines(text) == AllButLast(Split(text))

\* the segment kept in the buffer is trimmed
LastSegmentTrimmed(text) == Trim(Last(Split(text)))
LastSegment(text) == Last(Split(text))

\* the complete lines are processed and stay in the buffer
parseChunkKeepsLines(buf, count, chunk) ==
  IF chunk = NotAString
  THEN [buffer |-> buf, errorCount |-> count, tokens |-> <<>>, raised |-> FALSE]
  ELSE IF BufferTooLarge(buf \o chunk)
       THEN [buffer |-> <<>>, errorCount |-> count + 1, tokens |-> <<>>,
             raised |-> FALSE]
       ELSE [buffer |-> buf \o chunk]
              @@ ProcessLines(CompleteLines(buf \o chunk), 1, <<>>, count)

\* the last segment is processed as a line although no newline ended it
parseChunkEager(buf, count, chunk) ==
  IF chunk = NotAString
  THEN [buffer |-> buf, errorCount |-> count, tokens |-> <<>>, raised |-> FALSE]
  ELSE IF BufferTooLarge(buf \o chunk)
       THEN [buffer |-> <<>>, errorCount |-> count + 1, tokens |-> <<>>,
             raised |-> FALSE]
       ELSE [buffer |-> <<>>]
              @@ ProcessLines(Split(buf \o chunk), 1, <<>>, count)

\* lines 9-90.  The result holds the fields after the call, the tokens
\* returned (none when the call throws) and whether it threw.
parseChunk(buf, count, chunk) ==
  IF chunk = NotAString
  THEN [buffer |-> buf, errorCount |-> count, tokens |-> <<>>, raised |-> FALSE]
  ELSE IF BufferTooLarge(buf \o chunk)
       THEN [buffer |-> <<>>, errorCount |-> count + 1, tokens |-> <<>>,
             raised |-> FALSE]
       ELSE [buffer |-> LastSegment(buf \o chunk)]
              @@ ProcessLines(CompleteLines(buf \o chunk), 1, <<>>, count)

\* lines 95-100: the try/catch of flush; a throw of the call gives []
Caught(r) ==
  [buffer |-> r.buffer, errorCount |-> r.errorCount,
   tokens |-> IF r.raised THEN <<>> ELSE r.tokens, raised |-> FALSE]

\* the buffer is parsed again without the newline that ends its line
flushNoNewline(buf, count) ==
  IF Trim(buf) # <<>>
  THEN Caught(parseChunk(buf, count, <<>>))
  ELSE [buffer |-> buf, errorCount |-> count, tokens |-> <<>>, raised |-> FALSE]

\* the try/catch around parseChunk is missing
flushNoCatch(buf, count) ==
  IF Trim(buf) # <<>>
  THEN parseChunk(buf, count, <<NL>>)
  ELSE [buffer |-> buf, errorCount |-> count, tokens |-> <<>>, raised |-> FALSE]

\* lines 92-103: flush never throws; a throw of parseChunk is caught
flush(buf, count) ==
  IF Trim(buf) # <<>>
  THEN Caught(parseChunk(buf, count, <<NL>>))
  ELSE [buffer |-> buf, errorCount |-> count, tokens |-> <<>>, raised |-> FALSE]

\* the error count is not cleared
resetBufferOnly(buf, count) ==
  [buffer |-> <<>>, errorCount |-> count, tokens |-> <<>>, raised |-> FALSE]

\* lines 106-109
reset(buf, count) ==
  [buffer |-> <<>>, errorCount |-> 0, tokens |-> <<>>, raised |-> FALSE]

(***************************************************************************)
(* Upstream text                                                           *)
(***************************************************************************)
\* data: {"choices":[{"delta":{"content":"<c>"}}]}
RecHead ==
  <<DATA, SP, "{", Q, "choices", Q, ":", "[", "{", Q, "del">>
RecTail(c) ==
  <<"ta", Q, ":", "{", Q, "content", Q, ":", Q>> \o c \o <<Q, "}", "}", "]", "}">>
Rec(c) == RecHead \o RecTail(c)

Hi == <<"Hi">>
Hello == <<"Hello">>
Blank == <<SP>>

\* data: [DONE]
DoneLine == <<DATA, SP, DONE>>
\* : Hi
CommentLine == <<":", SP, "Hi">>
\* data: {"choices"     (JSON.parse throws)
BadLine == <<DATA, SP, "{", Q, "choices", Q>>
\* data: 1, data: null  (JSON, not an object)
NumLine == <<DATA, SP, "1">>
NullLine == <<DATA, SP, "null">>
\* data: {}, data: {"choices":[]}, data: {"choices":[{"delta":1}]}
\* (objects without the expected shape)
EmptyObjLine == <<DATA, SP, "{", "}">>
NoChoiceLine == <<DATA, SP, "{", Q, "choices", Q, ":", "[", "]", "}">>
NoDeltaLine ==
  <<DATA, SP, "{", Q, "choices", Q, ":", "[", "{", Q, "del", "ta", Q, ":", "1",
    "}", "]", "}">>
\* Hi           (no 'data: ' prefix)
OtherLine == <<"Hi">>

RECURSIVE Repeat(_, _)
Repeat(s, n) == IF n = 0 THEN <<>> ELSE s \o Repeat(s, n - 1)

\* chunks that end no line
OpenChunks == {<<SP>>, <<BULK>>, RecHead, Rec(Hi), BadLine}

\* chunks that end at least one line
ClosingChunks ==
  { <<NL>>,
    RecTail(Hi) \o <<NL>>,
    Rec(Hi) \o <<NL>>,
    Rec(Blank) \o <<NL>>,
    DoneLine \o <<NL>>,
    CommentLine \o <<NL>>,
    BadLine \o <<NL>>,
    NumLine \o <<NL>>,
    NullLine \o <<NL>>,
    EmptyObjLine \o <<NL>>,
    NoChoiceLine \o <<NL>>,
    NoDeltaLine \o <<NL>>,
    OtherLine \o <<NL>>,
    DoneLine \o <<NL>> \o BadLine \o <<NL, SP, NL>> \o BadLine \o <<NL>>,
    Rec(Hi) \o <<NL, NL>> \o Rec(Blank) \o <<NL, NL>> \o RecHead,
    RecTail(Hi) \o <<NL>> \o Repeat(BadLine \o <<NL>>, maxErrors),
    Rec(Hi) \o <<NL>> \o Repeat(BadLine \o <<NL>>, maxErrors)
      \o Rec(Hello) \o <<NL>> \o RecHead,
    Repeat(BadLine \o <<NL>>, maxErrors - 1) }

Chunks == OpenChunks \cup ClosingChunks \cup {NotAString}

HasNewline(s) == \E i \in 1..Len(s) : s[i] = NL

(***************************************************************************)
(* State                                                                   *)
(***************************************************************************)
VARIABLES
  buffer,       \* SSEParser.buffer
  errorCount,   \* SSEParser.errorCount
  op,           \* the last method called on the parser
  arg,          \* the text it was given: the chunk; for flush, the buffer
                \* (recorded for a parser on its own, not within a session)
  ret,          \* the tokens it returned
  threw,        \* whether it threw
  stream,       \* a session's upstream: everything the upstream sends
  pos,          \* how much of it has been read
  got,          \* a session's tokens: all that the parser returned so far
  pc,           \* where the session stands
  pending,      \* TextDecoder: the bytes of an incomplete character
  hasError,     \* POST, start(controller): hasError
  output,       \* the fragments enqueued on the response stream
  outState,     \* the response stream: "open", "closed" or "errored"
  peer,         \* a second request in flight: the locals of its start()
  body,         \* POST: what req.json() gives
  apiKey,       \* process.env.OPENROUTER_API_KEY
  attempt,      \* fetchWithRetry: attempt
  calls,        \* the number of calls of fetch so far
  delays,       \* fetchWithRetry: the delays waited so far, in ms
  outcomes,     \* what each call of fetch came to
  lastError,    \* fetchWithRetry: lastError
  response,     \* the Response that POST returns
  nodeEnv       \* process.env.NODE_ENV

parserVars == <<buffer, errorCount, op, arg, ret, threw>>
sessionVars == <<stream, pos, got, pc>>
relayVars == <<pending, hasError, output, outState, peer>>
requestVars ==
  <<body, apiKey, attempt, calls, delays, outcomes, lastError, response,
    nodeEnv>>
vars == <<parserVars, sessionVars, relayVars, requestVars>>

\* bounds of the exploration
MaxPendingLex == 2
MaxErrorCount == 11
MaxStreamLines == 2
MaxRelayLines == 2
MaxPromptLex == 3

\* new SSEParser()
NewParser ==
  /\ buffer = <<>>
  /\ errorCount = 0
  /\ op = "new"
  /\ arg = <<>>
  /\ ret = <<>>
  /\ threw = FALSE

\* no response stream yet
NoRelay ==
  /\ pending = <<>>
  /\ hasError = FALSE
  /\ output = <<>>
  /\ outState = "open"
  /\ peer = Undefined

\* no request
NoRequest ==
  /\ body = Undefined
  /\ apiKey = Undefined
  /\ attempt = 0
  /\ calls = 0
  /\ delays = <<>>
  /\ outcomes = <<>>
  /\ lastError = Undefined
  /\ response = Undefined
  /\ nodeEnv = Undefined

\* a parser on its own, called by any caller
Init ==
  /\ NewParser
  /\ stream = <<>>
  /\ pos = 0
  /\ got = <<>>
  /\ pc = "calls"
  /\ NoRelay
  /\ NoRequest

Called(name, a, r) ==
  /\ buffer' = r.buffer
  /\ errorCount' = r.errorCount
  /\ op' = name
  /\ arg' = a
  /\ ret' = r.tokens
  /\ threw' = r.raised

\* parser.parseChunk(c)
ParseChunk ==
  \E c \in Chunks :
    /\ errorCount <= MaxErrorCount
    /\ ~(Len(buffer) > MaxPendingLex /\ ~HasNewline(c))
    /\ Called("parseChunk", c, parseChunk(buffer, errorCount, c))
    /\ UNCHANGED <<sessionVars, relayVars, requestVars>>

\* parser.flush()
Flush ==
  /\ Called("flush", buffer, flush(buffer, errorCount))
  /\ UNCHANGED <<sessionVars, relayVars, requestVars>>

\* parser.reset()
Reset ==
  /\ Called("reset", <<>>, reset(buffer, errorCount))
  /\ UNCHANGED <<sessionVars, relayVars, requestVars>>

Next == ParseChunk \/ Flush \/ Reset

Spec == Init /\ [][Next]_vars

(***************************************************************************)
(* A session on a well-formed stream: the stream is cut into chunks at     *)
(* any places, the chunks are given to parseChunk in order, and flush      *)
(* ends the session.                                                       *)
(***************************************************************************)
\* data: {"choices":[{"delta":{}}]}    (a record without content)
NoContentLine ==
  <<DATA, SP, "{", Q, "choices", Q, ":", "[", "{", Q, "del", "ta", Q, ":", "{",
    "}", "}", "]", "}">>

RECURSIVE Texts(_, _)
\* the texts of at most n lines taken from kinds, each ended by a newline
Texts(kinds, n) ==
  IF n = 0
  THEN {<<>>}
  ELSE {<<>>} \cup {l \o <<NL>> \o t : l \in kinds, t \in Texts(kinds, n - 1)}

\* the same texts, and those whose last line no newline ends
Streams(kinds, n) ==
  Texts(kinds, n)
    \cup {SubSeq(t, 1, Len(t) - 1) : t \in Texts(kinds, n) \ {<<>>}}

\* the lines of a well-formed stream: records, [DONE], comments, empty lines
WellFormedLines ==
  {Rec(Hi), Rec(<<BULK>>), NoContentLine, DoneLine, CommentLine, <<>>}

WellFormedStreams == Streams(WellFormedLines, MaxStreamLines)

StreamInit ==
  /\ NewParser
  /\ stream \in WellFormedStreams
  /\ pos = 0
  /\ got = <<>>
  /\ pc = "feeding"
  /\ NoRelay
  /\ NoRequest

\* the next chunk, of any length, goes to parseChunk
Feed ==
  \E k \in 1..(Len(stream) - pos) :
    \E r \in {parseChunk(buffer, errorCount, SubSeq(stream, pos + 1, pos + k))} :
       /\ pc = "feeding"
       /\ Called("parseChunk", <<>>, r)
       /\ got' = got \o r.tokens
       /\ pos' = pos + k
       /\ UNCHANGED <<stream, pc, relayVars, requestVars>>

\* the stream has ended: flush
EndOfStream ==
  \E r \in {flush(buffer, errorCount)} :
     /\ pc = "feeding"
     /\ pos = Len(stream)
     /\ Called("flush", <<>>, r)
     /\ got' = got \o r.tokens
     /\ pc' = "done"
     /\ UNCHANGED <<stream, pos, relayVars, requestVars>>

StreamNext == Feed \/ EndOfStream

SpecStream == StreamInit /\ [][StreamNext]_vars

(***************************************************************************)
(* The same session on the streams of the documentation's examples.        *)
(***************************************************************************)
\* the chunk of the example of flush
HelloChunk == Rec(Hello) \o <<NL>>

\* the example of flush, the same record without its newline, and the tests
\* 'parses valid SSE data', 'skips [DONE] marker' and 'handles malformed
\* JSON gracefully'
ExampleStreams ==
  {HelloChunk, Rec(Hello), HelloChunk \o <<NL>>, DoneLine \o <<NL, NL>>,
   BadLine \o <<NL, NL>>}

ExampleInit ==
  /\ NewParser
  /\ stream \in ExampleStreams
  /\ pos = 0
  /\ got = <<>>
  /\ pc = "feeding"
  /\ NoRelay
  /\ NoRequest

SpecExamples == ExampleInit /\ [][StreamNext]_vars

(***************************************************************************)
(* The same session on streams that bring the error count to its ceiling.  *)
(***************************************************************************)
\* nine malformed lines, a record, a malformed line and a record; a record
\* and ten malformed lines; a record, eight malformed lines, a line longer
\* than the size ceiling and a ninth malformed line
\* a record, [DONE], a blank line and a record; five malformed lines, then
\* [DONE], a comment and a blank line, then five malformed lines
DoneStreams ==
  { Rec(Hi) \o <<NL>> \o DoneLine \o <<NL, NL>> \o Rec(Hello) \o <<NL>>,
    Repeat(BadLine \o <<NL>>, 5) \o DoneLine \o <<NL>> \o CommentLine
      \o <<NL, SP, NL>> \o Repeat(BadLine \o <<NL>>, 5) }

CeilingStreams ==
  DoneStreams \cup
  { Repeat(BadLine \o <<NL>>, maxErrors - 1) \o Rec(Hi) \o <<NL>>
      \o BadLine \o <<NL>> \o Rec(Hi) \o <<NL>>,
    Rec(Hi) \o <<NL>> \o Repeat(BadLine \o <<NL>>, maxErrors),
    Rec(Hi) \o <<NL>> \o Repeat(BadLine \o <<NL>>, maxErrors - 2)
      \o <<BULK, BULK, BULK, NL>> \o BadLine \o <<NL>> }

CeilingInit ==
  /\ NewParser
  /\ stream \in CeilingStreams
  /\ pos = 0
  /\ got = <<>>
  /\ pc = "feeding"
  /\ NoRelay
  /\ NoRequest

SpecCeiling == CeilingInit /\ [][StreamNext]_vars

(***************************************************************************)
(* The relay's read loop (src/app/api/generate/route.ts, POST, the start   *)
(* callback of the response ReadableStream).  The upstream body is a       *)
(* sequence of bytes: a character of the ASCII range is one byte, written  *)
(* as its lexeme, and LEAD, CONT are the two bytes of the character        *)
(* EACUTE.                                                                 *)
(***************************************************************************)
LEAD == "<C3>"
CONT == "<A9>"
EACUTE == "<U+00E9>"
REPLACEMENT == "<U+FFFD>"

RECURSIVE DecodeFrom(_, _, _)
\* the characters of the bytes b from index i on, after the characters acc; a
\* lead byte at the very end is kept for the next call
DecodeFrom(b, i, acc) ==
  IF i > Len(b)
  THEN [text |-> acc, pending |-> <<>>]
  ELSE IF b[i] = LEAD
       THEN IF i = Len(b)
            THEN [text |-> acc, pending |-> <<LEAD>>]
            ELSE IF b[i + 1] = CONT
                 THEN DecodeFrom(b, i + 2, Append(acc, EACUTE))
                 ELSE DecodeFrom(b, i + 1, Append(acc, REPLACEMENT))
       ELSE IF b[i] = CONT
            THEN DecodeFrom(b, i + 1, Append(acc, REPLACEMENT))
            ELSE DecodeFrom(b, i + 1, Append(acc, b[i]))

\* line 219: decoder.decode(value, { stream: true })
Decode(held, value) ==
  LET b == held \o value
      multi == {i \in 1..Len(b) : b[i] \in {LEAD, CONT}}
  IN IF multi = {}
     THEN [text |-> b, pending |-> <<>>]
     ELSE LET first == CHOOSE i \in multi : \A j \in multi : i <= j
          IN DecodeFrom(b, first, SubSeq(b, 1, first - 1))

RECURSIVE EncodeFrom(_, _, _)
EncodeFrom(t, i, acc) ==
  IF i > Len(t)
  THEN acc
  ELSE IF t[i] = EACUTE
       THEN EncodeFrom(t, i + 1, acc \o <<LEAD, CONT>>)
       ELSE IF t[i] = REPLACEMENT
            THEN EncodeFrom(t, i + 1, acc \o <<"<EF>", "<BF>", "<BD>">>)
            ELSE EncodeFrom(t, i + 1, Append(acc, t[i]))

\* lines 209, 227, 242: new TextEncoder().encode(token)
Encode(token) ==
  IF \A i \in 1..Len(token) : token[i] \notin {EACUTE, REPLACEMENT}
  THEN token
  ELSE EncodeFrom(token, 1, <<>>)

\* the tokens of a call, each encoded as a fragment of its own
EncodeAll(tokens) == [i \in 1..Len(tokens) |-> Encode(tokens[i])]

\* line 226: token && token.trim()
KeepToken(token) == token # <<>> /\ Trim(token) # <<>>

\* the fragments go in front of the output
EnqueueFront(out, fragments) == fragments \o out

\* controller.enqueue, once per fragment
Enqueue(out, fragments) == out \o fragments

\* line 241
ErrorMessage ==
  <<NL, NL, "[Error: Content generation was interrupted. Please try again.]">>

\* the finally block closes the stream whatever happened
FinallyAlwaysCloses(failed) == "closed"

\* the finally block signals nothing
FinallyNeither(failed) == "open"

\* lines 243-253: the finally block
Finally(failed) == IF failed THEN "errored" ELSE "closed"

\* what the upstream may send: a few lines of any of these kinds, and a run of
\* maxErrors malformed lines followed by a record
RelayLines == {Rec(Hi), Rec(Blank), Rec(<<LEAD, CONT>>), BadLine}

RelayStreams ==
  Streams(RelayLines, MaxRelayLines)
    \cup {Repeat(BadLine \o <<NL>>, maxErrors) \o Rec(Hi) \o <<NL>>}

\* where a read may end: in the middle of the 'data: ' prefix, of a JSON
\* record or of a character, just before a newline and just after it, and at
\* the end of the body
ReadEnds(bytes) ==
  {p \in 1..Len(bytes) :
     \/ bytes[p] \in {DATA, "del", LEAD, NL}
     \/ p = Len(bytes)
     \/ bytes[p + 1] = NL}

\* lines 257-264
StreamResponse ==
  [kind |-> "stream", code |-> "", message |-> "", status |-> 200,
   details |-> ""]

\* POST has returned the response whose body is the stream; of the request
\* nothing else is kept
Streaming ==
  /\ body = Undefined
  /\ apiKey = Undefined
  /\ attempt = 0
  /\ calls = 0
  /\ delays = <<>>
  /\ outcomes = <<>>
  /\ lastError = Undefined
  /\ response = StreamResponse
  /\ nodeEnv = Undefined

\* lines 193-198, 257: start(controller) and the response
RelayInit ==
  /\ NewParser
  /\ stream \in RelayStreams
  /\ pos = 0
  /\ got = <<>>
  /\ pc = "reading"
  /\ NoRelay
  /\ Streaming

\* the tokens of flush are filtered as those of a chunk are
FinalFragmentsFiltered(tokens) == EncodeAll(SelectSeq(tokens, KeepToken))

\* lines 208-210: every token of flush is encoded and enqueued
FinalFragments(tokens) == EncodeAll(tokens)

\* lines 230-234: the inner catch ends with continue, as the try block does
AfterChunk(raised) == "reading"

\* lines 202, 217-234: reader.read() gives the next bytes, of any length; the
\* chunk is decoded and parsed and its tokens are enqueued; a throw of
\* parseChunk is caught and the loop goes on.  On a stream that the caller
\* cancelled, controller.enqueue throws, which the same catch takes
ReadChunk ==
  \E k \in {j \in 1..(Len(stream) - pos) : pos + j \in ReadEnds(stream)} :
    \E d \in {Decode(pending, SubSeq(stream, pos + 1, pos + k))} :
    \E r \in {parseChunk(buffer, errorCount, d.text)} :
       /\ pc = "reading"
       /\ Called("parseChunk", <<>>, r)
       /\ pending' = d.pending
       /\ got' = got \o r.tokens
       /\ pos' = pos + k
       /\ output' = IF r.raised \/ outState # "open"
                    THEN output
                    ELSE Enqueue(output, EncodeAll(SelectSeq(r.tokens, KeepToken)))
       /\ pc' = AfterChunk(r.raised)
       /\ UNCHANGED <<stream, hasError, outState, peer, requestVars>>

\* lines 204-215, 243-253: reader.read() reports the end of the body; the
\* tokens of flush are enqueued and the response stream is closed.  On a
\* cancelled stream enqueue and close throw, and lines 211, 251 catch
ReadDone ==
  \E r \in {flush(buffer, errorCount)} :
     /\ pc = "reading"
     /\ pos = Len(stream)
     /\ Called("flush", <<>>, r)
     /\ got' = got \o r.tokens
     /\ output' = IF outState = "open"
                  THEN Enqueue(output, FinalFragments(r.tokens))
                  ELSE output
     /\ outState' = IF outState = "open" THEN Finally(hasError) ELSE outState
     /\ pc' = "done"
     /\ UNCHANGED <<stream, pos, pending, hasError, peer, requestVars>>

\* lines 202, 236-253: reader.read() rejects; the diagnostic is enqueued and
\* the response stream is put in the error state.  On a cancelled stream
\* enqueue throws and controller.error changes nothing
ReadFails ==
  /\ pc = "reading"
  /\ hasError' = TRUE
  /\ output' = IF outState = "open"
               THEN Enqueue(output, <<Encode(ErrorMessage)>>)
               ELSE output
  /\ outState' = IF outState = "open" THEN Finally(TRUE) ELSE outState
  /\ pc' = "done"
  /\ UNCHANGED <<parserVars, stream, pos, got, pending, peer, requestVars>>

RelayNext == ReadChunk \/ ReadDone \/ ReadFails

SpecRelay == RelayInit /\ [][RelayNext]_vars

\* lines 193-194: the caller cancels the response stream, whose source has a
\* start method and no cancel method: nothing of the relay runs
Cancel ==
  /\ pc = "reading"
  /\ outState = "open"
  /\ outState' = "cancelled"
  /\ UNCHANGED <<parserVars, sessionVars, pending, hasError, output, peer,
                 requestVars>>

CancelNext == RelayNext \/ Cancel

\* the read loop with a caller that may disconnect
SpecCancel == RelayInit /\ [][CancelNext]_vars

(***************************************************************************)
(* Two requests in flight.  Each call of POST creates its own stream, and  *)
(* each call of start(controller) its own reader, decoder, parser and      *)
(* hasError (lines 195-198).  The first request is held in the variables   *)
(* of the read loop above, the second in the record peer.                  *)
(***************************************************************************)
\* lines 195-198: the locals of a call of start(controller) on a body
Locals(bytes) ==
  [stream |-> bytes, pos |-> 0, pending |-> <<>>, buffer |-> <<>>,
   errorCount |-> 0, hasError |-> FALSE, output |-> <<>>, outState |-> "open",
   pc |-> "reading"]

\* lines 222-234: the parser's result r for a chunk that ended at byte end,
\* with the bytes held of an incomplete character
AfterRead(l, end, held, r) ==
  [l EXCEPT !.pos = end,
            !.pending = held,
            !.buffer = r.buffer,
            !.errorCount = r.errorCount,
            !.output = IF r.raised \/ l.outState # "open"
                       THEN @
                       ELSE Enqueue(@, EncodeAll(SelectSeq(r.tokens, KeepToken))),
            !.pc = AfterChunk(r.raised)]

\* lines 219-222: the decoded chunk d goes to the request's own parser
Decoded(l, end, d) ==
  AfterRead(l, end, d.pending, parseChunk(l.buffer, l.errorCount, d.text))

\* lines 202, 217-234: a read of the next k bytes
ChunkRead(l, k) ==
  Decoded(l, l.pos + k, Decode(l.pending, SubSeq(l.stream, l.pos + 1, l.pos + k)))

\* lines 207-214, 243-253: the result r of flush
Flushed(l, r) ==
  [l EXCEPT !.buffer = r.buffer,
            !.errorCount = r.errorCount,
            !.output = IF l.outState = "open"
                       THEN Enqueue(@, FinalFragments(r.tokens))
                       ELSE @,
            !.outState = IF @ = "open" THEN Finally(l.hasError) ELSE @,
            !.pc = "done"]

\* lines 204-215, 243-253: the end of the body
EndRead(l) == Flushed(l, flush(l.buffer, l.errorCount))

\* lines 202, 236-253: a read that rejects
FailedRead(l) ==
  [l EXCEPT !.hasError = TRUE,
            !.output = IF l.outState = "open"
                       THEN Enqueue(@, <<Encode(ErrorMessage)>>)
                       ELSE @,
            !.outState = IF @ = "open" THEN Finally(TRUE) ELSE @,
            !.pc = "done"]

\* the first request's variables are left alone
FirstUnchanged ==
  UNCHANGED <<parserVars, sessionVars, pending, hasError, output, outState,
              requestVars>>

\* the second request's parser is the first request's: one parser for all
\* requests
PeerReadChunkShared ==
  \E k \in {j \in 1..(Len(peer.stream) - peer.pos) :
              peer.pos + j \in ReadEnds(peer.stream)} :
    \E m \in {ChunkRead([peer EXCEPT !.buffer = buffer,
                                     !.errorCount = errorCount], k)} :
      /\ peer.pc = "reading"
      /\ peer' = m
      /\ buffer' = m.buffer
      /\ errorCount' = m.errorCount
      /\ UNCHANGED <<op, arg, ret, threw, sessionVars, pending, hasError,
                     output, outState, requestVars>>

\* the second request reads a chunk
PeerReadChunk ==
  \E k \in {j \in 1..(Len(peer.stream) - peer.pos) :
              peer.pos + j \in ReadEnds(peer.stream)} :
    /\ peer.pc = "reading"
    /\ peer' = ChunkRead(peer, k)
    /\ FirstUnchanged

\* the second request's body has ended
PeerReadDone ==
  /\ peer.pc = "reading"
  /\ peer.pos = Len(peer.stream)
  /\ peer' = EndRead(peer)
  /\ FirstUnchanged

\* a read of the second request rejects
PeerReadFails ==
  /\ peer.pc = "reading"
  /\ peer' = FailedRead(peer)
  /\ FirstUnchanged

PeerNext == PeerReadChunk \/ PeerReadDone \/ PeerReadFails

\* the body that brings its parser to the error ceiling, and a body of one
\* record
FatalStream == Repeat(BadLine \o <<NL>>, maxErrors) \o Rec(Hi) \o <<NL>>
ShortStream == Rec(Hello) \o <<NL>>

\* two responses are streaming, either of them on the fatal body
PairInit ==
  /\ NewParser
  /\ \E b \in {<<FatalStream, ShortStream>>, <<ShortStream, FatalStream>>} :
       stream = b[1] /\ peer = Locals(b[2])
  /\ pos = 0
  /\ got = <<>>
  /\ pc = "reading"
  /\ pending = <<>>
  /\ hasError = FALSE
  /\ output = <<>>
  /\ outState = "open"
  /\ Streaming

PairNext == RelayNext \/ PeerNext

SpecPair == PairInit /\ [][PairNext]_vars

(***************************************************************************)
(* The request handler (src/app/api/generate/route.ts, POST) up to the     *)
(* response: the request body, the prompt's validation, the credential,    *)
(* the upstream call with its retries, and the classification of what the  *)
(* upstream answered.                                                      *)
(***************************************************************************)
Str(text) == [t |-> "string", s |-> text]
Num(k) == [t |-> "number", n |-> k]
Null == [t |-> "null"]
Obj(members) == [t |-> "object", m |-> members]

\* line 28
maxPromptLength == 10000

\* lines 15-33
validatePrompt(prompt) ==
  IF ~Truthy(prompt)
  THEN [isValid |-> FALSE, error |-> "Prompt is required"]
  ELSE IF prompt.t # "string"
       THEN [isValid |-> FALSE, error |-> "Prompt must be a string"]
       ELSE IF StrLen(Trim(prompt.s)) = 0
            THEN [isValid |-> FALSE, error |-> "Prompt cannot be empty"]
            ELSE IF StrLen(prompt.s) > maxPromptLength
                 THEN [isValid |-> FALSE,
                       error |-> "Prompt is too long (max 10,000 characters)"]
                 ELSE [isValid |-> TRUE, error |-> ""]

\* lines 39-40: fetchWithRetry's defaults, which POST uses
maxRetries == 3
baseDelay == 1000

\* the delay grows by baseDelay with every attempt
BackoffLinear(n) == baseDelay * (n + 1)

\* line 66
Backoff(n) == baseDelay * 2 ^ n

\* the credential is never missed
HasCredentialAlways(key) == TRUE

\* line 123: !apiKey
HasCredential(key) == Truthy(key)

\* no status is taken for a client error
IsClientErrorNever(st) == FALSE

\* line 52
IsClientError(st) == st >= 400 /\ st < 500

\* one more attempt follows the last one
MayRetryOnceMore(n) == n <= maxRetries

\* lines 44, 65: another attempt follows attempt n
MayRetry(n) == n < maxRetries

\* an error object: its name and its message, a text
Error(name, message) == [t |-> "error", name |-> name, message |-> message]

\* String.prototype.includes, for a word that is one lexeme
Includes(text, word) == \E i \in 1..Len(text) : text[i] = word

\* what a call of fetch may come to (line 46): a response, with a status and
\* with or without a body; a transport failure, for which fetch rejects with
\* a TypeError; the timeout of line 48, for which it rejects with the reason
\* of AbortSignal.timeout, a DOMException named TimeoutError
Statuses == {200, 401, 404, 429, 500, 503}
Responses ==
  {[kind |-> "response", status |-> st, hasBody |-> TRUE] : st \in Statuses}
    \cup {[kind |-> "response", status |-> 200, hasBody |-> FALSE]}
TransportFailure ==
  [kind |-> "failure", error |-> Error("TypeError", <<"fetch", SP, "failed">>)]
TimedOut ==
  [kind |-> "failure",
   error |-> Error("TimeoutError",
                   <<"The", SP, "operation", SP, "was", SP, "aborted", SP,
                     "due", SP, "to", SP, "timeout">>)]
Outcomes == Responses \cup {TransportFailure, TimedOut}

\* Response.ok
Ok(st) == st >= 200 /\ st <= 299

\* line 61
HttpError(st) == Error("Error", <<"HTTP", SP, ToString(st), ":">>)

\* lines 77-92; details is "" when the error has none
createErrorResponse(code, message, status, details) ==
  [kind |-> "error", code |-> code, message |-> message, status |-> status,
   details |-> details]

\* line 176
StatusFor(st) == IF st >= 500 THEN 502 ELSE 400

\* the test for any 5xx comes before the test for 503
errorCodeServerFirst(st) ==
  IF st = 401 THEN "AUTH_ERROR"
  ELSE IF st = 429 THEN "RATE_LIMIT"
  ELSE IF st >= 500 THEN "UPSTREAM_SERVER_ERROR"
  ELSE IF st = 503 THEN "SERVICE_UNAVAILABLE"
  ELSE "UPSTREAM_ERROR"

\* lines 156-170: errorCode
errorCode(st) ==
  IF st = 401 THEN "AUTH_ERROR"
  ELSE IF st = 429 THEN "RATE_LIMIT"
  ELSE IF st = 503 THEN "SERVICE_UNAVAILABLE"
  ELSE IF st >= 500 THEN "UPSTREAM_SERVER_ERROR"
  ELSE "UPSTREAM_ERROR"

\* lines 155-170: errorMessage, for an upstream status
upstreamErrorMessage(st) ==
  IF st = 401 THEN "Authentication failed with AI service"
  ELSE IF st = 429 THEN "Rate limit exceeded. Please try again later."
  ELSE IF st = 503
       THEN "AI service temporarily unavailable. Please try again later."
  ELSE IF st >= 500 THEN "AI service error. Please try again later."
  ELSE "Failed to generate content"

\* lines 154-190: the response for what fetchWithRetry returned
Classify(upstream) ==
  IF ~Ok(upstream.status)
  THEN createErrorResponse(errorCode(upstream.status),
                           upstreamErrorMessage(upstream.status),
                           StatusFor(upstream.status), "upstreamStatus")
  ELSE IF ~upstream.hasBody
       THEN createErrorResponse("NO_RESPONSE_BODY",
                                "No response body from AI service", 502, "")
       ELSE StreamResponse

\* line 271
IsAbortError(error) == error.name = "AbortError"

\* lines 292-295: the details of INTERNAL_ERROR; the error's message is
\* among them in development only
InternalDetails ==
  IF nodeEnv = "development" THEN "timestamp,error" ELSE "timestamp"

\* lines 266-297: the response for an error thrown inside POST
CatchAll(error) ==
  IF IsAbortError(error)
  THEN createErrorResponse("REQUEST_TIMEOUT",
                           "Request timed out. Please try again.", 408, "")
  ELSE IF Includes(error.message, "fetch")
       THEN createErrorResponse(
              "NETWORK_ERROR",
              "Network error occurred. Please check your connection and try again.",
              503, "")
       ELSE createErrorResponse(
              "INTERNAL_ERROR",
              "An unexpected error occurred. Please try again later.",
              500, InternalDetails)

\* line 98-107: req.json() threw
Unparsable == [t |-> "unparsable"]

\* line 109: destructuring null throws a TypeError
DestructureError ==
  Error("TypeError",
        <<"Cannot", SP, "destructure", SP, "property", SP, "'prompt'", SP,
          "of", SP, "'requestBody'", SP, "as", SP, "it", SP, "is", SP,
          "null.">>)

\* the texts of at most n lexemes over the alphabet
RECURSIVE TextsOver(_, _)
TextsOver(alphabet, n) ==
  IF n = 0
  THEN {<<>>}
  ELSE {<<>>} \cup {Append(t, c) : t \in TextsOver(alphabet, n - 1),
                                   c \in alphabet}

\* prompts: texts of blanks, letters and a long run of letters, and values
\* that are not strings
PromptTexts == TextsOver({SP, "a", LONG}, MaxPromptLex)
Prompts ==
  {Str(p) : p \in PromptTexts}
    \cup {Null, Num(0), Num(1), [t |-> "boolean", b |-> TRUE]}

\* request bodies: no JSON, JSON that is no object, objects without and with
\* a prompt
Bodies ==
  {Unparsable, Null, Num(1), Str(<<"a">>), Obj(<<>>)}
    \cup {Obj(<<[k |-> <<"prompt">>, v |-> p]>>) : p \in Prompts}

ApiKeys == {Undefined, Str(<<>>), Str(<<"k">>)}

\* a request has arrived
RequestInit ==
  /\ NewParser
  /\ stream = <<>>
  /\ pos = 0
  /\ got = <<>>
  /\ pc = "received"
  /\ NoRelay
  /\ body \in Bodies
  /\ apiKey \in ApiKeys
  /\ attempt = 0
  /\ calls = 0
  /\ delays = <<>>
  /\ outcomes = <<>>
  /\ lastError = Undefined
  /\ response = Undefined
  /\ nodeEnv \in {"production", "development"}

\* POST returns the response r
Respond(r) ==
  /\ response' = r
  /\ pc' = "responded"

\* lines 96-131: the body is read and the prompt and the credential are
\* checked; then fetchWithRetry is entered
Post ==
  /\ pc = "received"
  /\ IF body = Unparsable
     THEN Respond(createErrorResponse("INVALID_JSON",
                                      "Invalid JSON in request body", 400,
                                      "error"))
     ELSE IF body.t \in {"null", "undefined"}
          THEN Respond(CatchAll(DestructureError))
          ELSE IF ~validatePrompt(GetProp(body, <<"prompt">>)).isValid
               THEN Respond(createErrorResponse(
                              "INVALID_PROMPT",
                              validatePrompt(GetProp(body, <<"prompt">>)).error,
                              400, ""))
               ELSE IF ~HasCredential(apiKey)
                    THEN Respond(createErrorResponse(
                                   "CONFIGURATION_ERROR",
                                   "Service configuration error. Please contact support.",
                                   500, ""))
                    ELSE /\ pc' = "fetching"
                         /\ response' = response
  /\ UNCHANGED <<parserVars, stream, pos, got, relayVars, body, apiKey,
                 attempt, calls, delays, outcomes, lastError, nodeEnv>>

\* lines 62-70: the catch of an attempt; the wait before the next one; after
\* the last one the loop ends and line 73 throws lastError, which the catch
\* of POST turns into a response
Retry(error) ==
  /\ lastError' = error
  /\ attempt' = attempt + 1
  /\ IF MayRetry(attempt)
     THEN /\ delays' = Append(delays, Backoff(attempt))
          /\ pc' = pc
          /\ response' = response
     ELSE /\ delays' = delays
          /\ Respond(CatchAll(error))

\* no attempt is taken for the last one
IsLastAttemptNever(n) == FALSE

\* line 57: attempt === maxRetries
IsLastAttempt(n) == n = maxRetries

\* fetchWithRetry returns the upstream's response (lines 53, 58) and POST
\* goes on with it
Returned(upstream) ==
  /\ Respond(Classify(upstream))
  /\ UNCHANGED <<attempt, delays, lastError>>

\* lines 44-71: one attempt of fetchWithRetry
Attempt ==
  \E o \in Outcomes :
    /\ pc = "fetching"
    /\ calls' = calls + 1
    /\ outcomes' = Append(outcomes, o)
    /\ IF o.kind = "failure"
       THEN Retry(o.error)
       ELSE IF IsClientError(o.status)
            THEN Returned(o)
            ELSE IF Ok(o.status) \/ IsLastAttempt(attempt)
                 THEN Returned(o)
                 ELSE Retry(HttpError(o.status))
    /\ UNCHANGED <<parserVars, stream, pos, got, relayVars, body, apiKey,
                   nodeEnv>>

RequestNext == Post \/ Attempt

SpecRequest == RequestInit /\ [][RequestNext]_vars

\* the same, where POST runs on: the body is read, and every call of fetch
\* and every wait of fetchWithRetry comes to its end
SpecRequestFair == SpecRequest /\ WF_vars(RequestNext)

(***************************************************************************)
(* Properties of the parser (specification Spec)                           *)
(*                                                                         *)
(* A property of a call is stated on the step that makes it: Call is the   *)
(* call's record, with the fields before it (buffer0, errorCount0), the    *)
(* method and its text (op, arg), and the outcome (ret, threw, buffer,     *)
(* errorCount).                                                            *)
(***************************************************************************)
Call ==
  [buffer0 |-> buffer, errorCount0 |-> errorCount, op |-> op', arg |-> arg',
   ret |-> ret', threw |-> threw', buffer |-> buffer',
   errorCount |-> errorCount']

\* a parseChunk call on a string for which the size breaker stays quiet
ParsedWithinCeiling(s) ==
  s.op = "parseChunk" /\ s.arg # NotAString /\ ~BufferTooLarge(s.buffer0 \o s.arg)

\* the complete lines the call processes
CallLines(s) == CompleteLines(s.buffer0 \o s.arg)

\* the contents of the records of the model's upstream text
Contents == {Hi, Hello, Blank, <<BULK>>, <<EACUTE>>}

\* the number of elements of q equal to x
Count(q, x) == Cardinality({i \in 1..Len(q) : q[i] = x})

\* the call, whose complete lines are lines, completes a record line, of
\* content c, whose beginning was buffered
CompletesSplitRecord(s, lines, c) ==
  /\ ParsedWithinCeiling(s)
  /\ s.buffer0 # <<>>
  /\ lines # <<>>
  /\ lines[1] = Rec(c)

\* a call returns at most one token per complete line; a chunk without a
\* newline, within the size ceiling, returns no token, does not throw and
\* leaves errorCount unchanged; flush returns the token of a buffered record
\* that no newline ended
NoTokenBeforeNewline(s, lines) ==
  /\ ParsedWithinCeiling(s) => Len(s.ret) <= Len(lines)
  /\ ParsedWithinCeiling(s) /\ ~HasNewline(s.arg) =>
       s.ret = <<>> /\ ~s.threw /\ s.errorCount = s.errorCount0
  /\ \A c \in Contents : s.op = "flush" /\ s.buffer0 = Rec(c) => s.ret = <<c>>

\* the call returns the token of its first line, a record of content c, once
YieldsOnce(s, lines, c) ==
  /\ ~s.threw
  /\ s.ret # <<>>
  /\ Head(s.ret) = c
  /\ Count(s.ret, c) = Count(lines, Rec(c))

\* C4 as stated: parseChunk never emits a token for a record whose newline
\* has not been received, and a record split across chunks yields its token
\* exactly once, in the call that delivers its newline
C4_SplitRecordOnceOriginal ==
  [][ \A s \in {Call} : \A lines \in {CallLines(s)} :
        /\ NoTokenBeforeNewline(s, lines)
        /\ \A c \in Contents :
             CompletesSplitRecord(s, lines, c) => YieldsOnce(s, lines, c)
    ]_vars

\* C4 as amended: parseChunk never emits a token for a record whose newline
\* has not been received, and a split record yields its token exactly once in
\* the call that delivers its newline, unless that call throws the fatal
\* decode error (ten malformed lines follow the record in the same call); the
\* call then returns nothing and the record is no longer buffered
C4_SplitRecordOnce ==
  [][ \A s \in {Call} : \A lines \in {CallLines(s)} :
        /\ NoTokenBeforeNewline(s, lines)
        /\ \A c \in Contents :
             CompletesSplitRecord(s, lines, c) =>
               \/ YieldsOnce(s, lines, c)
               \/ /\ s.threw
                  /\ s.ret = <<>>
                  /\ s.errorCount >= maxErrors
                  /\ s.buffer = LastSegment(s.arg)
    ]_vars

\* a split record's token came with its newline
C4_Witness ==
  op = "parseChunk" /\ arg = RecTail(Hi) \o <<NL>> /\ ret = <<Hi>> /\ buffer = <<>>

\* a data line that is not the [DONE] marker and whose payload is not JSON
IsMalformedLine(line) ==
  /\ ~IsSkippedLine(line)
  /\ IsDataLine(line)
  /\ Slice(line, DataPrefixLen) # <<DONE>>
  /\ ~JsonParse(Slice(line, DataPrefixLen)).ok

TenthMalformedRaises(s) ==
  LET lines == CallLines(s)
      n == Len(lines)
      rest == ProcessLines(Tail(lines), 1, <<>>, s.errorCount0 + 1)
  IN /\ ParsedWithinCeiling(s) /\ n > 0
        /\ (\A i \in 1..n : IsMalformedLine(lines[i])) =>
          /\ s.errorCount0 + n < maxErrors =>
               ~s.threw /\ s.ret = <<>> /\ s.errorCount = s.errorCount0 + n
          /\ s.errorCount0 < maxErrors /\ s.errorCount0 + n >= maxErrors =>
               s.threw /\ s.errorCount = maxErrors
     /\ ParsedWithinCeiling(s) /\ n > 1 /\ IsMalformedLine(lines[1])
        /\ s.errorCount0 + 1 < maxErrors =>
          /\ s.ret = rest.tokens
          /\ s.threw = rest.raised
          /\ s.errorCount = rest.errorCount

\* C6: when every line of a call is a malformed data line, the call counts
\* each of them; it returns no token and does not throw while the count stays
\* below the ceiling of 10, and throws when the count reaches it.  A malformed
\* first line below the ceiling does not stop the lines after it from being
\* processed.
C6_TenthMalformedRaises == [][ \A s \in {Call} : TenthMalformedRaises(s) ]_vars

\* the tenth malformed line in a row, given alone, made the call throw
C6_Witness ==
  /\ op = "parseChunk"
  /\ arg = BadLine \o <<NL>>
  /\ threw
  /\ errorCount = maxErrors

\* a [DONE] line, a comment or a blank line
IsIgnoredLine(line) ==
  line = DoneLine \/ StartsWith(line, <<":">>) \/ Trim(line) = <<>>

IgnoredLines(s) ==
  LET lines == CallLines(s)
      kept == SelectSeq(lines, LAMBDA l : ~IsIgnoredLine(l))
      r == ProcessLines(kept, 1, <<>>, s.errorCount0)
  IN /\ ParsedWithinCeiling(s)
        /\ (\A i \in 1..Len(lines) : IsIgnoredLine(lines[i])) =>
          s.ret = <<>> /\ ~s.threw /\ s.errorCount = s.errorCount0
     /\ ParsedWithinCeiling(s) =>
          s.ret = r.tokens /\ s.threw = r.raised /\ s.errorCount = r.errorCount

\* C7: a call in which every complete line is a [DONE] line, a comment or a
\* blank line returns no token, does not throw and leaves errorCount
\* unchanged; and wherever such lines stand among other lines, the call
\* behaves as if they were not there.
C7_IgnoredLines == [][ \A s \in {Call} : IgnoredLines(s) ]_vars

\* a [DONE] line was processed at a non-zero error count
C7_Witness ==
  /\ op = "parseChunk"
  /\ arg = DoneLine \o <<NL>>
  /\ errorCount = maxErrors - 1
  /\ ret = <<>>
  /\ ~threw

\* the call processes exactly one line, a data line
OneDataLine(s) ==
  /\ ParsedWithinCeiling(s)
  /\ \A lines \in {CallLines(s)} : Len(lines) = 1 /\ IsDataLine(lines[1])

\* a non-empty choices array whose first element has an object-valued delta
HasExpectedShape(v) ==
  LET choices == GetProp(v, <<"choices">>)
      delta == GetProp(GetFirst(choices), <<"del", "ta">>)
  IN /\ v.t = "object"
     /\ choices.t = "array"
     /\ GetFirst(choices).t = "object"
     /\ delta.t \in {"object", "array"}

C9_FlushRecord ==
  [][ \A s \in {Call} : \A c \in Contents :
        s.op = "flush" /\ s.buffer0 = Rec(c) =>
          s.ret = <<c>> /\ s.buffer = <<>> /\ ~s.threw
    ]_vars

\* flush returned the content of the buffered record
C9_Witness == op = "flush" /\ arg = Rec(Hi) /\ ret = <<Hi>> /\ buffer = <<>>

\* C10: flush never throws; on an empty or whitespace-only buffer it returns
\* no token and changes nothing; on a buffered malformed line at an error
\* count of 9 or more it returns no token
C10_FlushNeverRaises ==
  [][ \A s \in {Call} :
        s.op = "flush" =>
          /\ ~s.threw
          /\ Trim(s.buffer0) = <<>> =>
               s.ret = <<>> /\ s.buffer = s.buffer0
               /\ s.errorCount = s.errorCount0
          /\ IsMalformedLine(s.buffer0) /\ s.errorCount0 >= maxErrors - 1 =>
               s.ret = <<>>
    ]_vars

\* flush swallowed the fatal decode error of a buffered malformed line
C10_Witness ==
  /\ op = "flush"
  /\ arg = BadLine
  /\ errorCount = maxErrors
  /\ ret = <<>>
  /\ ~threw

(***************************************************************************)
(* Properties of a session on a well-formed stream (SpecStream)            *)
(***************************************************************************)
\* the tokens of the session that gives the whole text as one chunk
OneChunkTokens(text) ==
  LET r == parseChunk(<<>>, 0, text)
  IN r.tokens \o flush(r.buffer, r.errorCount).tokens

RECURSIVE Concat(_)
\* the concatenation of a sequence of strings
Concat(q) == IF q = <<>> THEN <<>> ELSE Head(q) \o Concat(Tail(q))

\* the delta.content of a line of a well-formed stream
ContentOf(line) ==
  IF \E c \in Contents : line = Rec(c)
  THEN CHOOSE c \in Contents : line = Rec(c)
  ELSE <<>>

\* the delta.content values of the records of a text, in order
ContentsOf(text) == LET l == Split(text) IN [i \in 1..Len(l) |-> ContentOf(l[i])]

EndsWithNewline(text) == text = <<>> \/ text[Len(text)] = NL

\* C1: chunking transparency.  However a newline-terminated well-formed
\* stream is cut into chunks, parseChunk on the chunks and then flush yield
\* the tokens that the stream yields when given as one single chunk.
C1_ChunkingTransparent ==
  pc = "done" /\ EndsWithNewline(stream) => got = OneChunkTokens(stream)

\* C2: round trip.  The tokens of all parseChunk calls of a session and of
\* the final flush, concatenated, are the delta.content values of the
\* stream's records, concatenated in order.
C2_RoundTrip ==
  pc = "done" => Concat(got) = Concat(ContentsOf(stream))

C3_EveryTokenForwarded ==
  [][ pos' > pos /\ op' = "parseChunk" /\ ~threw' =>
        output' = output \o EncodeAll(ret') ]_vars

RECURSIVE IsSubseq(_, _)
\* a is b with some elements left out
IsSubseq(a, b) ==
  IF a = <<>>
  THEN TRUE
  ELSE IF b = <<>>
       THEN FALSE
       ELSE IF Head(a) = Head(b)
            THEN IsSubseq(Tail(a), Tail(b))
            ELSE IsSubseq(a, Tail(b))

\* the fragments that are tokens: all but the diagnostic of a failed read
TokenFragments(out, failed) ==
  IF failed THEN SubSeq(out, 1, Len(out) - 1) ELSE out

\* the contents of the records of the upstream, encoded, in order of arrival
UpstreamContents(bytes) == EncodeAll(ContentsOf(Decode(<<>>, bytes).text))

\* the tokens of a call that carry text other than whitespace
Printable(tokens) == SelectSeq(tokens, LAMBDA t : Trim(t) # <<>>)

RequestPrompt ==
  IF body.t = "object" THEN GetProp(body, <<"prompt">>) ELSE Undefined

\* a prompt that is missing, no string, empty after trimming, or too long
IsInvalidPrompt(p) ==
  \/ p.t # "string"
  \/ StrLen(Trim(p.s)) = 0
  \/ StrLen(p.s) > 10000

\* C12: a request whose body is JSON and whose prompt is missing, not a
\* string, empty after trimming or longer than 10,000 characters makes no
\* upstream call and is answered with INVALID_PROMPT and a 4xx status.
C12_InvalidPromptRejected ==
  body # Unparsable /\ IsInvalidPrompt(RequestPrompt) =>
    /\ calls = 0
    /\ pc = "responded" =>
         /\ response.code = "INVALID_PROMPT"
         /\ response.status \in 400..499

\* the first attempt got a successful answer
FirstAttemptSucceeds == Len(outcomes) >= 1 /\ outcomes[1].kind = "response"
                          /\ Ok(outcomes[1].status)

\* C13: a prompt whose length after trimming is between 1 and 10,000
\* characters is accepted when the credential is configured, and when the
\* first upstream attempt succeeds exactly one upstream call is made.
C13_ValidPromptOneCall ==
  /\ RequestPrompt.t = "string"
  /\ StrLen(Trim(RequestPrompt.s)) \in 1..10000
  /\ Truthy(apiKey)
  /\ pc = "responded"
  => /\ response.code # "INVALID_PROMPT"
     /\ calls >= 1
     /\ FirstAttemptSucceeds => calls = 1

\* the request passes the validation of the body and of the prompt
IsValidRequest == body.t = "object" /\ ~IsInvalidPrompt(RequestPrompt)

\* C14: when the credential is absent, a valid request makes no upstream call
\* and is answered with CONFIGURATION_ERROR, a 5xx status and the generic
\* message, without details.
C14_MissingCredential ==
  IsValidRequest /\ ~Truthy(apiKey) =>
    /\ calls = 0
    /\ pc # "fetching"
    /\ pc = "responded" =>
         /\ response.code = "CONFIGURATION_ERROR"
         /\ response.status \in 500..599
         /\ response.message
              = "Service configuration error. Please contact support."
         /\ response.details = ""

C14_Witness ==
  /\ pc = "responded"
  /\ IsValidRequest
  /\ apiKey = Undefined
  /\ response.code = "CONFIGURATION_ERROR"
  /\ calls = 0

\* the outcome of the attempt just made
LastOutcome == outcomes[Len(outcomes)]

Is4xx(o) == o.kind = "response" /\ o.status \in 400..499

\* C15: a 4xx answer of the upstream, on any attempt, ends fetchWithRetry at
\* once: the response is given in the same step, without a wait, no upstream
\* call follows it (nothing happens after the response, and a 4xx answer is
\* only ever the last outcome), and the error is the one of the status
\* (AUTH_ERROR for 401, RATE_LIMIT for 429).
C15_ClientErrorNotRetried ==
  [][ /\ pc # "responded"
      /\ \A i \in 1..Len(outcomes) : ~Is4xx(outcomes[i])
      /\ calls' > calls =>
           \A o \in {outcomes'[Len(outcomes')]} :
              Is4xx(o) =>
                /\ pc' = "responded"
                /\ delays' = delays
                /\ calls' = calls + 1
                /\ response'.kind = "error"
                /\ o.status = 401 => response'.code = "AUTH_ERROR"
                /\ o.status = 429 => response'.code = "RATE_LIMIT"
    ]_vars

\* a 429 on the third attempt
C15_Witness ==
  /\ pc = "responded"
  /\ calls = 3
  /\ LastOutcome.status = 429
  /\ response.code = "RATE_LIMIT"
  /\ delays = <<1000, 2000>>

AllOutcomes(o) == \A i \in 1..Len(outcomes) : outcomes[i] = o

Status500 == [kind |-> "response", status |-> 500, hasBody |-> TRUE]

C17_AtMostThreeAttemptsOriginal == calls <= 3

\* C17: a request never makes more than 4 upstream calls, the first attempt
\* and 3 retries, whatever the upstream answers.
C17_AttemptsBounded == calls <= 4 /\ calls = Len(outcomes) /\ attempt <= 4

\* four calls, for 5xx answers and transport failures
C17_Witness ==
  /\ calls = 4
  /\ \E i, j \in 1..3 :
       /\ outcomes[i] = TransportFailure
       /\ outcomes[j].kind = "response" /\ outcomes[j].status >= 500

\* the response is made from the answer fetchWithRetry returned
AnswerReturned ==
  pc = "responded" /\ calls > 0 /\ LastOutcome.kind = "response"

C19_StatusSurfaced ==
  AnswerReturned /\ ~Ok(LastOutcome.status) =>
    response.status
      = IF LastOutcome.status >= 500 THEN 502 ELSE LastOutcome.status

\* C20: when every attempt runs into the 30 s timeout, each is retried like a
\* transport failure, up to the last attempt, and the response is then
\* REQUEST_TIMEOUT with status 408.
C20_TimeoutSurfaced ==
  calls > 0 /\ AllOutcomes(TimedOut) =>
    /\ pc = "fetching" => Len(delays) = calls
    /\ pc = "responded" =>
         /\ calls = maxRetries + 1
         /\ response.code = "REQUEST_TIMEOUT"
         /\ response.status = 408

(***************************************************************************)
(* Properties of the relay's read loop (SpecRelay): failures               *)
(***************************************************************************)
\* C21: when parseChunk raises its fatal decode failure while the relay
\* reads, the relay aborts the stream: that step ends the reading, the
\* output does not end as a clean completion, and the fragments already
\* enqueued stay.
C21_FatalAbortsStream ==
  [][ pc = "reading" /\ op' = "parseChunk" /\ threw' =>
        /\ pc' = "done"
        /\ outState' \notin {"open", "closed"}
        /\ SubSeq(output', 1, Len(output)) = output
    ]_vars

\* C22: when a read of the upstream fails, the relay enqueues one diagnostic
\* fragment after the fragments already enqueued, and puts the output in the
\* error state, never in the closed state; the parser is not called again
\* and nothing happens after the failure, so no token follows the
\* diagnostic, which is the only one in the output.
C22_ReadFailure ==
  [][ /\ ~hasError
      /\ hasError' =>
           /\ output' = Append(output, ErrorMessage)
           /\ outState' = "errored"
           /\ pc' = "done"
           /\ got' = got
           /\ UNCHANGED parserVars
      /\ outState' = "closed" => ~hasError'
      /\ Count(output', ErrorMessage) = IF hasError' THEN 1 ELSE 0
    ]_vars

\* a read failed after a token was forwarded
C22_Witness ==
  /\ hasError
  /\ pc = "done"
  /\ outState = "errored"
  /\ output = <<Hi, ErrorMessage>>

\* C23: when the upstream ends, the relay calls flush, enqueues every token
\* flush returns, and closes the output, in that one step; the output is
\* closed whatever flush returns.  flush is called at the end of the
\* upstream only, and nothing happens after that step, so it is called once.
C23_CleanEnd ==
  [][ /\ pc = "reading"
      /\ op' = "flush" => pos = Len(stream) /\ pc' = "done"
      /\ pc' = "done" /\ ~hasError' =>
           /\ op' = "flush"
           /\ pos = Len(stream)
           /\ output' = output \o EncodeAll(ret')
           /\ outState' = "closed"
    ]_vars

\* flush returned a record that no newline ended, a blank, and the relay
\* enqueued it and closed the output
C23_Witness ==
  /\ pc = "done"
  /\ op = "flush"
  /\ ret = <<Blank>>
  /\ output = <<Hi, Blank>>
  /\ outState = "closed"

\* C24: a failure that comes before any token fragment was sent, a failure
\* of the very first read included, is answered with a structured error
\* object, and not with a streamed body.
C24_EarlyFailureIsStructured ==
  hasError /\ TokenFragments(output, hasError) = <<>> =>
    /\ response.kind = "error"
    /\ output = <<>>

\* C28: a decode error in one chunk does not end the stream: in the read
\* of a chunk whose parse throws, and of every chunk that follows malformed
\* lines, the loop stays in its reading state with the response stream open
\* and unfailed, and the tokens parsed from the following chunk are all
\* enqueued.
C28_DecodeErrorDoesNotEndStream ==
  [][ pos' > pos /\ op' = "parseChunk" /\ ~(errorCount = 0 /\ ~threw') =>
        /\ pc' = "reading"
        /\ outState' = "open"
        /\ ~hasError'
        /\ errorCount > 0 /\ ~threw' => output' = output \o EncodeAll(ret') ]_vars

(***************************************************************************)
(* Properties of two requests in flight (SpecPair)                         *)
(***************************************************************************)
\* the first request's locals
Own ==
  [stream |-> stream, pos |-> pos, pending |-> pending, buffer |-> buffer,
   errorCount |-> errorCount, hasError |-> hasError, output |-> output,
   outState |-> outState, pc |-> pc]

\* m is what a request that runs alone comes to from l in one step
LoneStep(l, m) ==
  /\ l.pc = "reading"
  /\ \/ /\ m.pos > l.pos
        /\ m.pos \in ReadEnds(l.stream)
        /\ m = ChunkRead(l, m.pos - l.pos)
     \/ /\ l.pos = Len(l.stream)
        /\ m = EndRead(l)
     \/ m = FailedRead(l)

\* C34: in every interleaving of the reads of two requests, each step is
\* the step of one request as it would make it alone, on its own stream,
\* parser, buffer and errorCount, and leaves everything of the other request
\* as it was; so the error ceiling reached by one is not seen by the other.
C34_SessionsIsolated ==
  [][ \A a \in {Own} : \A b \in {Own'} : \A p \in {peer} : \A q \in {peer'} :
        \/ q = p /\ LoneStep(a, b)
        \/ b = a /\ LoneStep(p, q) /\ UNCHANGED <<op, arg, ret, threw, got>>
    ]_vars

\* a request that has just thrown at the ceiling and another whose record
\* is half read, with no failure counted
C34_Witness ==
  /\ threw
  /\ errorCount = maxErrors
  /\ peer.pc = "reading"
  /\ peer.pos > 0
  /\ peer.buffer # <<>>
  /\ peer.errorCount = 0
  /\ peer.output = <<>>

(***************************************************************************)
(* Properties of the read loop with a caller that disconnects (SpecCancel) *)
(***************************************************************************)
\* C25: once the caller has cancelled the response stream, the relay reads
\* no further chunk of the upstream.
C25_CancelStopsReading ==
  [][ outState = "cancelled" => pos' = pos /\ op' # "parseChunk" ]_vars

\* C38: the relay signals the end of the response stream once, on every
\* path.  While the loop reads, the stream is open (or cancelled by the
\* caller) and every read brings the loop nearer to its end: it takes bytes
\* of the finite body or leaves the loop.  At the
\* end of the loop the finally block calls close when no read has failed and
\* error when one has; after that, and after a cancel, nothing is enqueued
\* and the stream's state is final.
C38_TerminalOnce ==
  /\ [](pc = "reading" => outState \in {"open", "cancelled"} /\ pos <= Len(stream))
  /\ [](pc = "done" /\ outState # "cancelled" =>
          outState = (IF hasError THEN "errored" ELSE "closed"))
  /\ [][ /\ outState # "open" => UNCHANGED <<output, outState>>
         /\ pc = "done" => UNCHANGED <<output, outState, hasError>>
         /\ pc = "reading" /\ outState' = outState =>
              pos' > pos \/ pc' = "done"
         /\ pc = "reading" /\ outState' # outState =>
              \/ pc' = "done"
              \/ outState' = "cancelled" /\ output' = output ]_vars

\* two records were forwarded and the stream was closed, no read having
\* failed
C38_Witness ==
  /\ pc = "done"
  /\ outState = "closed"
  /\ ~hasError
  /\ output = <<Hi, Hi>>

(***************************************************************************)
(* Properties of the request handler (SpecRequest): what an error says     *)
(***************************************************************************)
\* C26: with NODE_ENV set to production, no error response of the relay
\* carries a details field.
C26_NoDetailsInProduction ==
  nodeEnv = "production" /\ pc = "responded" /\ response.kind = "error" =>
    response.details = ""

\* fetchWithRetry threw, and the catch of POST made the response
Raised ==
  /\ pc = "responded"
  /\ calls > 0
  /\ response.kind = "error"
  /\ response.code \in {"REQUEST_TIMEOUT", "NETWORK_ERROR", "INTERNAL_ERROR"}

\* C39: fetchWithRetry ends, whatever the attempts come to: every request
\* gets its response, after at most maxRetries + 1 attempts.  Each attempt
\* but the first comes after exactly one wait and no wait follows the last
\* attempt.  It throws only after maxRetries + 1 attempts of which the last
\* was a failure of fetch; a 5xx answer to the last attempt is returned as
\* the response, whatever the attempts before came to.
C39_RetryTerminates ==
  /\ [](pc = "fetching" => attempt <= maxRetries /\ Len(delays) = calls)
  /\ [](pc = "responded" /\ calls > 0 =>
          /\ calls <= maxRetries + 1
          /\ Len(delays) = calls - 1
          /\ Raised <=> calls = maxRetries + 1 /\ LastOutcome.kind = "failure"
          /\ LastOutcome.kind = "response" /\ LastOutcome.status >= 500 =>
               /\ calls = maxRetries + 1
               /\ response.status = 502
               /\ response.code = errorCode(LastOutcome.status))
  /\ [][ pc = "fetching" =>
           /\ calls' = calls + 1
           /\ \/ pc' = "responded" /\ delays' = delays
              \/ pc' = "fetching" /\ attempt' = attempt + 1
                   /\ Len(delays') = Len(delays) + 1 ]_vars
  /\ <>(pc = "responded")

\* three failures of fetch, then a 503 to the fourth attempt, which is
\* returned
C39_Witness ==
  /\ pc = "responded"
  /\ calls = maxRetries + 1
  /\ outcomes[1] = TransportFailure
  /\ outcomes[2] = TransportFailure
  /\ outcomes[3] = TimedOut
  /\ LastOutcome.kind = "response" /\ LastOutcome.status = 503
  /\ response.code = "SERVICE_UNAVAILABLE"
  /\ delays = <<1000, 2000, 4000>>

(***************************************************************************)
(* Properties of a session that meets malformed lines (SpecCeiling)        *)
(***************************************************************************)
\* a data line that is decoded: not skipped and not the [DONE] marker
IsDecodedLine(line) ==
  ~IsSkippedLine(line) /\ IsDataLine(line) /\ Slice(line, DataPrefixLen) # <<DONE>>

\* a data line whose payload is a JSON object or array
IsWellFormedLine(line) ==
  /\ IsDecodedLine(line)
  /\ \E p \in {JsonParse(Slice(line, DataPrefixLen))} :
       p.ok /\ p.v.t \in {"object", "array"}

IsFailingLine(line) == IsDecodedLine(line) /\ ~IsWellFormedLine(line)

\* of the lines 1..i, the place of the last well-formed one, or 0
LastWellFormed(lines, i) ==
  LET at == {j \in 1..i : IsWellFormedLine(lines[j])}
  IN IF at = {} THEN 0 ELSE CHOOSE j \in at : \A k \in at : k <= j

\* the failures in a row at line i: the failing lines since the last
\* well-formed line and, when there is none, the failures carried over
FailuresAt(lines, i, carried) ==
  LET w == LastWellFormed(lines, i)
  IN (IF w = 0 THEN carried ELSE 0)
       + Cardinality({j \in (w + 1)..i : IsFailingLine(lines[j])})

\* the malformed data lines of a text since its last well-formed record
MalformedSinceRecord(text) ==
  FailuresAt(CompleteLines(text), Len(CompleteLines(text)), 0)

\* C31 as stated: the count is 0 after a well-formed record, and parseChunk
\* throws only when ten or more malformed records have arrived since the
\* last well-formed record of the stream.
C31_ResetOnSuccessOriginal ==
  [][ pos' > pos =>
        /\ \A lines \in {CompleteLines(buffer \o SubSeq(stream, pos + 1, pos'))} :
             ~BufferTooLarge(buffer \o SubSeq(stream, pos + 1, pos'))
               /\ ~threw' /\ lines # <<>> /\ IsWellFormedLine(lines[Len(lines)])
               => errorCount' = 0
        /\ threw' => MalformedSinceRecord(SubSeq(stream, 1, pos')) >= maxErrors
    ]_vars

\* C31 as amended: a well-formed record sets the count to 0, each malformed
\* data line after it and each discard by the size breaker adds 1, and
\* parseChunk throws exactly when a malformed line brings the count of
\* failures since the last well-formed record, discards included, to 10.
C31_ResetOnSuccess ==
  [][ pos' > pos =>
        \A text \in {buffer \o SubSeq(stream, pos + 1, pos')} :
          \A lines \in {CompleteLines(text)} :
            IF BufferTooLarge(text)
            THEN ~threw' /\ errorCount' = errorCount + 1
            ELSE /\ threw' <=>
                      \E i \in 1..Len(lines) :
                        /\ IsFailingLine(lines[i])
                        /\ FailuresAt(lines, i, errorCount) >= maxErrors
                 /\ ~threw' =>
                      errorCount' = FailuresAt(lines, Len(lines), errorCount)
                 /\ threw' => errorCount' >= maxErrors
    ]_vars

\* ten malformed lines in all, a record after the ninth, and no throw
C31_Witness ==
  /\ stream = Repeat(BadLine \o <<NL>>, maxErrors - 1) \o Rec(Hi) \o <<NL>>
                \o BadLine \o <<NL>> \o Rec(Hi) \o <<NL>>
  /\ pos = Len(stream)
  /\ op = "parseChunk"
  /\ ~threw
  /\ errorCount = 0
  /\ got = <<Hi, Hi>>

(***************************************************************************)
(* Properties of the parser (Spec): the error count and the buffer         *)
(***************************************************************************)
\* C27: after a parseChunk call that returned normally, errorCount is below
\* the ceiling of 10.
C27_ReturnsBelowCeiling ==
  op = "parseChunk" /\ ~threw => errorCount < maxErrors

\* C30: after every call of parseChunk, whether it returned or threw, of
\* flush and of reset, the buffer holds no newline, so at most one incomplete
\* line, and at most 100,000 characters.
C30_BufferBounded ==
  ~HasNewline(buffer) /\ StrLen(buffer) <= BufferCeiling

\* chunks without a newline have filled the buffer to the ceiling exactly
C30_Witness ==
  /\ op = "parseChunk"
  /\ buffer = <<BULK, BULK>>
  /\ StrLen(buffer) = BufferCeiling

\* a parseChunk call whose chunk is not empty and holds blanks and newlines
\* only
WhitespaceChunk(s) ==
  s.op = "parseChunk" /\ s.arg # NotAString /\ s.arg # <<>> /\ Trim(s.arg) = <<>>

\* C32 as stated: parseChunk with a chunk of whitespace only returns no
\* token and leaves the buffer and errorCount as they were, whatever the
\* state of the parser.
C32_WhitespaceChunkNoOpOriginal ==
  [][ \A s \in {Call} :
        WhitespaceChunk(s) =>
          s.ret = <<>> /\ s.buffer = s.buffer0 /\ s.errorCount = s.errorCount0
    ]_vars

\* C32 as amended: parseChunk with a chunk of whitespace only, within the
\* size ceiling, returns no token, does not throw and leaves errorCount as it
\* was when the buffer holds no text (it is empty or blank) or the chunk holds
\* no newline; the chunk is appended to the buffer, which keeps what follows
\* the last newline.  A newline of the chunk ends a line that the buffer
\* holds, and that line is processed.
C32_WhitespaceChunkNoOp ==
  [][ \A s \in {Call} :
        WhitespaceChunk(s) /\ ParsedWithinCeiling(s) =>
          /\ ~HasNewline(s.arg) => s.buffer = s.buffer0 \o s.arg
          /\ HasNewline(s.arg) =>
               \E k \in 0..(Len(s.arg) - 1) :
                 /\ s.arg[Len(s.arg) - k] = NL
                 /\ s.buffer = SubSeq(s.arg, Len(s.arg) - k + 1, Len(s.arg))
                 /\ ~HasNewline(s.buffer)
          /\ Trim(s.buffer0) = <<>> \/ ~HasNewline(s.arg) =>
               s.ret = <<>> /\ ~s.threw /\ s.errorCount = s.errorCount0
          /\ HasNewline(s.arg) =>
               \E r \in {ProcessLines(<<s.buffer0>>, 1, <<>>, s.errorCount0)} :
                 s.ret = r.tokens /\ s.threw = r.raised
                   /\ s.errorCount = r.errorCount
    ]_vars

\* a blank was given to a parser with an empty buffer, one failure short of
\* the ceiling: the blank is buffered and nothing else has changed
C32_Witness ==
  /\ op = "parseChunk"
  /\ arg = <<SP>>
  /\ buffer = <<SP>>
  /\ ret = <<>>
  /\ ~threw
  /\ errorCount = maxErrors - 1

\* C33: reset, called in any state, after a fatal throw too, leaves the
\* buffer empty and errorCount 0, returns nothing and does not throw; the
\* call that follows it gives what it gives on a new parser.
C33_ResetRestoresInitial ==
  [][ \A s \in {Call} :
        /\ s.op = "reset" =>
             s.buffer = <<>> /\ s.errorCount = 0 /\ s.ret = <<>> /\ ~s.threw
        /\ op = "reset" /\ s.op = "parseChunk" =>
             \E r \in {parseChunk(<<>>, 0, s.arg)} :
               /\ s.ret = r.tokens
               /\ s.threw = r.raised
               /\ s.buffer = r.buffer
               /\ s.errorCount = r.errorCount
        /\ op = "reset" /\ s.op = "flush" =>
             s.ret = <<>> /\ ~s.threw /\ s.buffer = <<>> /\ s.errorCount = 0
    ]_vars

\* reset has been called and the parser is as a new one
C33_Witness ==
  /\ op = "reset"
  /\ buffer = <<>>
  /\ errorCount = 0
  /\ ret = <<>>
  /\ ~threw

\* the first line of lines at which the failures in a row reach the ceiling
FatalLine(lines, carried) ==
  LET at == {i \in 1..Len(lines) :
               IsFailingLine(lines[i])
                 /\ FailuresAt(lines, i, carried) >= maxErrors}
  IN CHOOSE i \in at : \A j \in at : i <= j

\* C35: a parseChunk call that throws the fatal error returns no token,
\* although lines before the failing one held records; the lines after the
\* failing line are not processed, so errorCount is the count reached at
\* that line; and the buffer keeps the segment after the last newline only,
\* so no later call meets the lines of this chunk again.
C35_FatalThrowLosesChunk ==
  [][ \A s \in {Call} :
        s.op = "parseChunk" /\ s.threw =>
          \A lines \in {CallLines(s)} :
            /\ s.ret = <<>>
            /\ s.errorCount
                 = FailuresAt(lines, FatalLine(lines, s.errorCount0),
                              s.errorCount0)
            /\ \E k \in 0..Len(s.arg) :
                 /\ s.buffer = SubSeq(s.arg, Len(s.arg) - k + 1, Len(s.arg))
                 /\ ~HasNewline(s.buffer)
                 /\ s.arg[Len(s.arg) - k] = NL
    ]_vars

\* the call threw at the tenth malformed line of a chunk that began with a
\* record and went on with another record and the head of a third: no
\* token, the count of ten, and the head in the buffer
C35_Witness ==
  /\ op = "parseChunk"
  /\ arg = Rec(Hi) \o <<NL>> \o Repeat(BadLine \o <<NL>>, maxErrors)
             \o Rec(Hello) \o <<NL>> \o RecHead
  /\ threw
  /\ ret = <<>>
  /\ errorCount = maxErrors
  /\ buffer = RecHead

\* the decoded lines of a call's complete lines
DecodedLines(lines) == SelectSeq(lines, IsDecodedLine)

\* C36: the fatal throw leaves errorCount at 10 or more, and the parser goes
\* on working.  A later parseChunk call, made with errorCount at 10 or more,
\* throws again, without a token, when its first data line is malformed; when
\* its first data line is a well-formed record, the count restarts from 0 and
\* the call gives what it gives on a parser without failures; with no data
\* line it changes nothing.
C36_ThrowDoesNotLatch ==
  [][ \A s \in {Call} :
        /\ s.op = "parseChunk" /\ s.threw => s.errorCount >= maxErrors
        /\ ParsedWithinCeiling(s) /\ s.errorCount0 >= maxErrors =>
             \A d \in {DecodedLines(CallLines(s))} :
               IF d = <<>>
               THEN ~s.threw /\ s.ret = <<>> /\ s.errorCount = s.errorCount0
               ELSE IF IsFailingLine(d[1])
                    THEN /\ s.threw
                         /\ s.ret = <<>>
                         /\ s.errorCount = s.errorCount0 + 1
                    ELSE \E r \in {ProcessLines(d, 1, <<>>, 0)} :
                           /\ s.threw = r.raised
                           /\ s.ret = r.tokens
                           /\ s.errorCount = r.errorCount
    ]_vars

\* with the count at the ceiling already, one more malformed line made the
\* call throw again
C36_Witness ==
  /\ op = "parseChunk"
  /\ arg = BadLine \o <<NL>>
  /\ threw
  /\ ret = <<>>
  /\ errorCount = maxErrors + 1

(***************************************************************************)
(* Properties of a session on a well-formed stream (SpecStream): the size  *)
(* circuit breaker                                                         *)
(***************************************************************************)
\* the records among the complete lines of a text
RecordsOf(text) ==
  SelectSeq(CompleteLines(text), LAMBDA line : ContentOf(line) # <<>>)

\* C29: when the buffer with the chunk appended is longer than 100,000
\* characters, the call returns no token, empties the buffer, adds 1 to
\* errorCount and does not throw; and the text so discarded holds no complete
\* newline-terminated record.
C29_BreakerLosesNoRecord ==
  [][ \A text \in {buffer \o SubSeq(stream, pos + 1, pos')} :
        pos' > pos /\ BufferTooLarge(text) =>
          /\ ret' = <<>>
          /\ buffer' = <<>>
          /\ errorCount' = errorCount + 1
          /\ ~threw'
          /\ RecordsOf(text) = <<>> ]_vars

(***************************************************************************)
(* Properties of a session that meets [DONE] (SpecCeiling)                 *)
(***************************************************************************)
\* the contents of the records among the complete lines of a text
RecordContents(text) ==
  LET recs == RecordsOf(text) IN [i \in 1..Len(recs) |-> ContentOf(recs[i])]

\* C37: on a stream with a [DONE] line, however it is cut into chunks, the
\* records after the [DONE] line yield their tokens like those before it;
\* and malformed lines are counted across [DONE], comment and blank lines,
\* which neither reset the count nor hold it back: the tenth malformed line
\* makes the call throw.
C37_DoneIsNoEnd ==
  [][ pos' > pos /\ stream \in DoneStreams =>
        \A text \in {SubSeq(stream, 1, pos')} :
          /\ threw' <=>
               /\ MalformedSinceRecord(text) >= maxErrors
               /\ MalformedSinceRecord(SubSeq(stream, 1, pos)) < maxErrors
          /\ ~threw' => errorCount' = MalformedSinceRecord(text)
          /\ MalformedSinceRecord(stream) = 0 => got' = RecordContents(text)
    ]_vars

\* the record after [DONE] has given its token
C37_Witness ==
  /\ stream = Rec(Hi) \o <<NL>> \o DoneLine \o <<NL, NL>> \o Rec(Hello) \o <<NL>>
  /\ pos = Len(stream)
  /\ op = "parseChunk"
  /\ got = <<Hi, Hello>>
  /\ errorCount = 0

=============================================================================
